---- MODULE Spec2Model ----
(***************************************************************************)
(* VyxalBot3: the chat command dispatcher (commands/dispatcher.py) and the  *)
(* GitHub webhook reporter (github/webhook.py).                            *)
(*                                                                         *)
(* Spec      the room's event loop: run() takes one event at a time and    *)
(*           handle()/invoke() dispatch it, one action per await.          *)
(* BindSpec  the argument binder prepare_arguments as a pure function of   *)
(*           (leaf, positional tokens, keyword tokens).                    *)
(* WebSpec   the GitHub webhook reporter (github/webhook.py):              *)
(*           handle_request, the router and the handler generators.        *)
(*                                                                         *)
(* A token is <<kind, value>> as in the source (argument[0], argument[1]). *)
(* A message text is the sequence of the pieces its f-string joins; the     *)
(* markdown backquotes around names are left out of the pieces.            *)
(***************************************************************************)
EXTENDS Integers, Sequences, FiniteSets, TLC

VARIABLES
    disp,        \* disp[e]: the locals of the dispatch of event e
    taken,       \* number of events run() has taken from room.events()
    loop,        \* "running" | "crashed": whether run() is still iterating
    dbUsers,     \* the user table: ids db.user.upsert has created
    bLeaf,       \* BindSpec: the command whose signature is bound
    bArgs,       \* BindSpec: the positional tokens
    bExplicit,   \* BindSpec: the keyword tokens, in dict order
    bResult,     \* BindSpec: what prepare_arguments returned or raised
    web          \* WebSpec: web[q]: the locals of handle_request for delivery q

vars == <<disp, taken, loop, dbUsers, bLeaf, bArgs, bExplicit, bResult, web>>

(***************************************************************************)
(* Bounds                                                                  *)
(***************************************************************************)
MaxEvents == 2      \* events the room delivers
MaxTokens == 3      \* positional tokens of one command line
MaxParams == 2      \* declared parameters of a bound command (BindSpec)
MaxRequests == 1    \* webhook deliveries in flight (WebSpec)
MaxCommits == 6     \* distinct commits of one push (WebSpec)

None == "None"

(***************************************************************************)
(* Constants imported from vyxalbot3.commands and the token kinds of       *)
(* vyxalbot3.commands.parser.                                              *)
(***************************************************************************)
ArgumentType == {"FLAG", "WORD", "STRING", "NUMBER"}
IGNORED_PARAMETERS == {"event", "current_user"}
ADMIN_GROUP == "admin"
COMMAND_FUNCTION_SUFFIX == "_command"
\* annotation type |-> the token kind it expects
ARGUMENT_TYPE_SIGNATURES ==
    [t \in {"word", "str", "int"} |->
        CASE t = "word" -> "WORD" [] t = "str" -> "STRING" [] t = "int" -> "NUMBER"]

(***************************************************************************)
(* Parameters and signatures (inspect.signature(command).parameters).      *)
(* annotation: [kind |-> "enum", members |-> <<literals>>]                 *)
(*           | [kind |-> "union", type |-> t]      (t | None, default None)*)
(*           | [kind |-> "plain", type |-> t]                              *)
(* hasDefault is  parameter.default is not parameter.empty.                *)
(***************************************************************************)
Plain(t) == [kind |-> "plain", type |-> t, members |-> <<>>]
Union(t) == [kind |-> "union", type |-> t, members |-> <<>>]
EnumOf(ms) == [kind |-> "enum", type |-> "enum", members |-> ms]
Parameter(n, a, d) == [name |-> n, annotation |-> a, hasDefault |-> d]
\* a CommandLeaf: __name__ is kept as the pieces of the identifier
CommandLeaf(n, ps) == [kind |-> "leaf", name |-> n, parameters |-> ps]
\* a group: a dict from flag names to subtrees; keys is its insertion order
CommandGroup(ks, ch) == [kind |-> "group", keys |-> ks, children |-> ch]

ParameterNames(parameters) == {parameters[i].name : i \in 1..Len(parameters)}

\* parameters.get(name): the index of the parameter so named, 0 for None
ParameterGet(parameters, name) ==
    IF name \in ParameterNames(parameters)
    THEN CHOOSE i \in 1..Len(parameters) : parameters[i].name = name
    ELSE 0

(***************************************************************************)
(* Text                                                                    *)
(***************************************************************************)
RECURSIVE Join(_, _)
\* sep.join(items)
Join(sep, items) ==
    IF Len(items) = 0 THEN <<>>
    ELSE IF Len(items) = 1 THEN <<items[1]>>
    ELSE <<items[1], sep>> \o Join(sep, Tail(items))

\* raise CommandError(message)
Raise(message) == [ok |-> FALSE, exc |-> "CommandError", message |-> message, value |-> None]
\* prepare_arguments has not been called
Unbound == [ok |-> FALSE, exc |-> "unbound", message |-> <<>>, value |-> "None"]
\* a normal return
Return(v) == [ok |-> TRUE, exc |-> None, message |-> <<>>, value |-> v]

(***************************************************************************)
(* expected_type, create_argument_value                                    *)
(***************************************************************************)
expected_type(parameter) ==
    IF parameter.annotation.kind = "enum" THEN "FLAG"
    ELSE ARGUMENT_TYPE_SIGNATURES[parameter.annotation.type]

\* mutant: the literal is looked up with its case folded
EnumLookupFolded(members, name) ==
    \E i \in 1..Len(members) :
        members[i] = name \/ <<members[i], name>> \in {<<"a", "A">>, <<"b", "B">>}
\* parameter.annotation(name) succeeds: name is the value of a member
EnumLookup(members, name) ==
    \E i \in 1..Len(members) : members[i] = name

create_argument_value(parameter, argument, expected) ==
    IF argument[1] = "FLAG" /\ expected = "FLAG"
    THEN IF EnumLookup(parameter.annotation.members, argument[2])
         THEN Return([tag |-> "enum", v |-> argument[2]])
         ELSE Raise(<<"Invalid value supplied for argument ", parameter.name,
                      "; expected one of ">>
                    \o Join("/", parameter.annotation.members) \o <<".">>)
    ELSE IF expected = argument[1]
    THEN Return([tag |-> "token", v |-> argument[2]])
    ELSE Raise(<<"Incorrect type supplied for argument ", parameter.name,
                 "; expected **", expected, "** but got **", argument[1], "**">>)

(***************************************************************************)
(* prepare_arguments                                                       *)
(***************************************************************************)
\* argument_values[key] = value
Put(argument_values, key, value) ==
    [k \in DOMAIN argument_values \cup {key} |->
        IF k = key THEN value ELSE argument_values[k]]

RECURSIVE PositionalPhase(_, _, _, _)
\* "Set positional arguments": the zip_longest loop from its i-th pair on
PositionalPhase(parameters, arguments, i, argument_values) ==
    IF i > Len(arguments) THEN Return(argument_values)
    ELSE IF i > Len(parameters)
    THEN Raise(<<"Superfluous arguments supplied starting at ", arguments[i][2], ".">>)
    ELSE IF parameters[i].name \in IGNORED_PARAMETERS
    THEN PositionalPhase(parameters, arguments, i + 1, argument_values)
    ELSE LET r == create_argument_value(parameters[i], arguments[i],
                                        expected_type(parameters[i]))
         IN  IF r.ok
             THEN PositionalPhase(parameters, arguments, i + 1,
                                  Put(argument_values, parameters[i].name, r.value))
             ELSE r

\* mutant: the "multiple values" guard is missing
KeywordGuardNoDuplicate(parameters, argument_name, argument_values) ==
    IF argument_name \in IGNORED_PARAMETERS
    THEN <<"Illegal argument ", argument_name, " supplied.">>
    ELSE IF ParameterGet(parameters, argument_name) = 0
    THEN <<"Unknown argument ", argument_name, " supplied.">>
    ELSE <<>>
\* the three guards of the keyword loop: the message raised, <<>> for none
KeywordGuard(parameters, argument_name, argument_values) ==
    IF argument_name \in IGNORED_PARAMETERS
    THEN <<"Illegal argument ", argument_name, " supplied.">>
    ELSE IF argument_name \in DOMAIN argument_values
    THEN <<"Multiple values supplied for argument ", argument_name, ".">>
    ELSE IF ParameterGet(parameters, argument_name) = 0
    THEN <<"Unknown argument ", argument_name, " supplied.">>
    ELSE <<>>

RECURSIVE KeywordPhase(_, _, _, _)
\* "Set keyword arguments": explicit_arguments.items() from its j-th item on
KeywordPhase(parameters, explicit_arguments, j, argument_values) ==
    IF j > Len(explicit_arguments) THEN Return(argument_values)
    ELSE LET argument_name == explicit_arguments[j][1]
             argument == explicit_arguments[j][2]
             guard == KeywordGuard(parameters, argument_name, argument_values)
         IN  IF guard # <<>> THEN Raise(guard)
             ELSE LET parameter == parameters[ParameterGet(parameters, argument_name)]
                      r == create_argument_value(parameter, argument,
                                                 expected_type(parameter))
                  IN  IF r.ok
                      THEN KeywordPhase(parameters, explicit_arguments, j + 1,
                                        Put(argument_values, parameter.name, r.value))
                      ELSE r

RECURSIVE MissingPhase(_, _, _)
\* "Find missing arguments": the loop over parameters from the i-th on
MissingPhase(parameters, i, argument_values) ==
    IF i > Len(parameters) THEN Return(argument_values)
    ELSE IF parameters[i].name \in IGNORED_PARAMETERS
    THEN MissingPhase(parameters, i + 1, argument_values)
    ELSE IF parameters[i].name \notin DOMAIN argument_values /\ ~parameters[i].hasDefault
    THEN Raise(<<"Argument ", parameters[i].name,
                 " not provided, expected a value of type **",
                 expected_type(parameters[i]), "**.">>)
    ELSE MissingPhase(parameters, i + 1, argument_values)

\* mutant: every context value is set, declared by the command or not
ContextPhaseUnconditional(parameters, context, i, argument_values) ==
    LET keys == {context[j][1] : j \in i..Len(context)}
    IN  [k \in DOMAIN argument_values \cup keys |->
            IF k \in keys
            THEN context[CHOOSE j \in i..Len(context) : context[j][1] = k][2]
            ELSE argument_values[k]]
RECURSIVE ContextPhase(_, _, _, _)
\* "Set context values": context.items() from its i-th item on
ContextPhase(parameters, context, i, argument_values) ==
    IF i > Len(context) THEN argument_values
    ELSE ContextPhase(parameters, context, i + 1,
            IF context[i][1] \in ParameterNames(parameters)
            THEN Put(argument_values, context[i][1], context[i][2])
            ELSE argument_values)

prepare_arguments(command, arguments, explicit_arguments, context) ==
    LET parameters == command.parameters
        positional == PositionalPhase(parameters, arguments, 1, <<>>)
    IN  IF ~positional.ok THEN positional
        ELSE LET keyword == KeywordPhase(parameters, explicit_arguments, 1,
                                         positional.value)
             IN  IF ~keyword.ok THEN keyword
                 ELSE LET missing == MissingPhase(parameters, 1, keyword.value)
                      IN  IF ~missing.ok THEN missing
                          ELSE Return(ContextPhase(parameters, context, 1,
                                                   missing.value))

\* the context invoke() passes: the event and the upserted user
Context == << <<"event", [tag |-> "context", v |-> "event"]>>,
             <<"current_user", [tag |-> "context", v |-> "current_user"]>> >>

(***************************************************************************)
(* The command tree handed to the constructor, and the inputs of the room  *)
(***************************************************************************)
echo_command ==
    CommandLeaf(<<"echo", "_command">>,
                <<Parameter("text", Plain("str"), FALSE),
                  Parameter("event", Plain("MessageEvent"), FALSE)>>)
group_sub_command ==
    CommandLeaf(<<"group", "_", "sub", "_command">>,
                <<Parameter("n", Plain("int"), FALSE)>>)
NoCommand == CommandLeaf(<<>>, <<>>)

Tree ==
    CommandGroup(<<"echo", "group">>,
        [k \in {"echo", "group"} |->
            IF k = "echo" THEN echo_command
            ELSE CommandGroup(<<"sub">>, [j \in {"sub"} |-> group_sub_command])])

Events == 1..MaxEvents
UserIds == {1}
UserNames == {"ann", "bob"}
Groups == {ADMIN_GROUP, "mod"}
Tokens == {<<"FLAG", "echo">>, <<"FLAG", "group">>, <<"FLAG", "sub">>,
           <<"FLAG", "nope">>, <<"STRING", "hi">>}
\* parse_arguments never returns an empty positional list here
TokenLists == UNION {[1..n -> Tokens] : n \in 1..MaxTokens}
ExplicitMaps == {<<>>, << <<"text", <<"STRING", "hi">> >> >>,
                 << <<"event", <<"STRING", "hi">> >> >>}
TrickBody == <<"canned reply">>

\* the orders in which a set may be iterated
Orders(S) == {o \in [1..Cardinality(S) -> S] : \A i, j \in DOMAIN o : i # j => o[i] # o[j]}

(***************************************************************************)
(* split_arguments                                                         *)
(* The pair it returns is [first, second]; second is a str, None or a list.*)
(***************************************************************************)
SecondStr(name) == [type |-> "str", str |-> name, list |-> <<>>]
SecondNone == [type |-> "NoneType", str |-> "", list |-> <<>>]
SecondList(l) == [type |-> "list", str |-> "", list |-> l]
NoLocus == [first |-> NoCommand, second |-> SecondNone]

RECURSIVE SplitFrom(_, _, _)
\* the for loop of split_arguments from position index on, at node command
SplitFrom(command, arguments, index) ==
    IF index > Len(arguments) THEN [first |-> command, second |-> SecondNone]
    ELSE LET argument == arguments[index]
         IN  IF argument[1] # "FLAG"
             THEN [first |-> command, second |-> SecondNone]
             ELSE IF argument[2] \notin DOMAIN command.children
             THEN [first |-> command, second |-> SecondStr(argument[2])]
             ELSE LET child == command.children[argument[2]]
                  IN  IF child.kind # "group"
                      THEN [first |-> child,
                            second |-> SecondList(SubSeq(arguments, index + 1,
                                                         Len(arguments)))]
                      ELSE SplitFrom(child, arguments, index + 1)

\* mutant: the remaining tokens start at the name of the Leaf (arguments[index:])
split_arguments_from_leaf_name(arguments) ==
    LET r == SplitFrom(Tree, arguments, 1)
    IN  IF r.second.type = "list"
        THEN [r EXCEPT !.second.list =
                SubSeq(arguments, Len(arguments) - Len(@), Len(arguments))]
        ELSE r
split_arguments(arguments) == SplitFrom(Tree, arguments, 1)

\* [str(a[1]) for a in arguments]
Values(arguments) == [i \in 1..Len(arguments) |-> arguments[i][2]]

(***************************************************************************)
(* The dispatch of one event: the locals of run(), handle() and invoke().  *)
(* pc is the await the dispatch is suspended at:                           *)
(*   "waiting" (not yet taken), "fetch", "upsert", "trick",                *)
(*   "check_permissions", "command", "send",                               *)
(*   "ignored" (run() went on to the next event without handle()),         *)
(*   "returned" (handle() returned), "raised" (handle() raised).           *)
(* trick_query, permission_query: the keys the two stores are asked for.   *)
(* response: what invoke() returned to handle().                           *)
(* sent: the messages this dispatch has passed to room.send.               *)
(* steps: the steps this dispatch has taken, in order.                     *)
(***************************************************************************)
\* what invoke() returns: a str, a (message, reply_to) pair or None
ResponseStr(message) == [type |-> "str", message |-> message, reply_to |-> 0]
ResponsePair(message, reply_to) == [type |-> "tuple", message |-> message, reply_to |-> reply_to]
ResponseNone == [type |-> "NoneType", message |-> <<>>, reply_to |-> 0]

Blank(p) ==
    [pc |-> p, message_id |-> 0, user_id |-> 0, user_name |-> "", groups |-> {},
     full_arguments |-> <<>>, explicit_arguments |-> <<>>, locus |-> NoLocus,
     trick_query |-> "", permission_query |-> <<>>, allowed |-> {},
     argument_values |-> <<>>, response |-> ResponseNone,
     failure |-> <<>>, pending |-> <<>>, sent |-> <<>>, steps |-> <<>>]

Step(d, s) == [d EXCEPT !.steps = Append(@, s)]

Message(text, reply_to) == [text |-> text, reply_to |-> reply_to]

\* except ParseError as error: await self.room.send(f"Parse error: ...", ...)
OnParseError(d, message) ==
    [d EXCEPT !.pc = "send",
              !.failure = <<[exc |-> "ParseError", message |-> message]>>,
              !.pending = <<Message(<<"Parse error: ">> \o message, d.message_id)>>]

\* mutant: the CommandError is caught and nothing is sent
OnCommandErrorSwallowed(d, message) ==
    [d EXCEPT !.pc = "returned",
              !.failure = <<[exc |-> "CommandError", message |-> message]>>]
\* except CommandError as error: await self.room.send(error.message, ...)
OnCommandError(d, message) ==
    [d EXCEPT !.pc = "send",
              !.failure = <<[exc |-> "CommandError", message |-> message]>>,
              !.pending = <<Message(message, d.message_id)>>]

\* mutant: a (message, reply_to) pair is sent as a reply to the triggering message
RespondPairAsReply(d, response) ==
    IF response.type \in {"str", "tuple"}
    THEN [d EXCEPT !.pc = "send", !.response = response,
                   !.pending = <<Message(response.message, d.message_id)>>]
    ELSE [d EXCEPT !.pc = "returned", !.response = response]
\* the else branch of handle(): match response
Respond(d, response) ==
    IF response.type = "str"
    THEN [d EXCEPT !.pc = "send", !.response = response,
                   !.pending = <<Message(response.message, d.message_id)>>]
    ELSE IF response.type = "tuple"
    THEN [d EXCEPT !.pc = "send", !.response = response,
                   !.pending = <<Message(response.message, response.reply_to)>>]
    ELSE [d EXCEPT !.pc = "returned", !.response = response]

(***************************************************************************)
(* invoke                                                                  *)
(***************************************************************************)
\* mutant: the subcommands listed are those of the root of the tree
NoSuchMessageRootKeys(d, locus) ==
    IF locus.first = Tree
    THEN <<"There is no command named !!/", locus.second.str, ".">>
    ELSE <<"The group !!/">>
         \o Join(" ", Values(SubSeq(d.full_arguments, 1, Len(d.full_arguments) - 1)))
         \o <<" has no subcommand named \"", locus.second.str,
              "\". Its subcommands are: ">>
         \o Join(", ", Tree.keys)
\* the CommandError of the nonexistent-leaf case: no command / no subcommand
NoSuchMessage(d, locus) ==
    IF locus.first = Tree
    THEN <<"There is no command named !!/", locus.second.str, ".">>
    ELSE <<"The group !!/">>
         \o Join(" ", Values(SubSeq(d.full_arguments, 1, Len(d.full_arguments) - 1)))
         \o <<" has no subcommand named \"", locus.second.str,
              "\". Its subcommands are: ">>
         \o Join(", ", locus.first.keys)

\* mutant: the Trick store is asked only for a miss at the root of the tree
OnNonexistentLeafRootOnly(d, locus) ==
    IF locus.first = Tree
    THEN [Step(d, "split_arguments") EXCEPT !.pc = "trick", !.locus = locus,
                                             !.trick_query = locus.second.str]
    ELSE OnCommandError([Step(d, "split_arguments") EXCEPT !.locus = locus],
                        NoSuchMessage(d, locus))
\* case (tree, str(nonexistent_leaf)): the lookup in the Trick store starts
OnNonexistentLeaf(d, locus) ==
    [Step(d, "split_arguments") EXCEPT !.pc = "trick", !.locus = locus,
                                         !.trick_query = locus.second.str]

\* mutant: a command that ends on a group is looked up in the Trick store too
OnGroupAsksTrick(d, locus) ==
    [Step(d, "split_arguments") EXCEPT !.pc = "trick", !.locus = locus,
                                         !.trick_query = d.full_arguments[1][2]]
\* mutant: a command that ends on a group is dropped like one without a leading FLAG
OnGroupSilent(d, locus) ==
    Respond([Step(d, "split_arguments") EXCEPT !.locus = locus], ResponseNone)
\* mutant: the incomplete-group message lists the commands of the root
OnGroupRootKeys(d, locus) ==
    OnCommandError([Step(d, "split_arguments") EXCEPT !.locus = locus],
        <<"Subcommands of !!/">> \o Join(" ", Values(d.full_arguments))
            \o <<" are: ">> \o Join(", ", Tree.keys))
\* case (tree, None): the command ended on a group name
OnGroup(d, locus) ==
    OnCommandError([Step(d, "split_arguments") EXCEPT !.locus = locus],
        <<"Subcommands of !!/">> \o Join(" ", Values(d.full_arguments))
            \o <<" are: ">> \o Join(", ", locus.first.keys))

\* command.__name__.removesuffix(COMMAND_FUNCTION_SUFFIX).replace("_", " ")
CanonicalName(name) ==
    LET stem == IF Len(name) > 0 /\ name[Len(name)] = COMMAND_FUNCTION_SUFFIX
                THEN SubSeq(name, 1, Len(name) - 1) ELSE name
    IN  [i \in 1..Len(stem) |-> IF stem[i] = "_" THEN " " ELSE stem[i]]

\* case (command, arguments): check_permissions starts its query
OnLeaf(d, locus) ==
    [Step(d, "split_arguments") EXCEPT !.pc = "check_permissions", !.locus = locus,
                                         !.permission_query = CanonicalName(locus.first.name)]

\* the match over split_arguments(full_arguments)
InvokeMatch(d) ==
    LET locus == split_arguments(d.full_arguments)
    IN  IF locus.second.type = "str" THEN OnNonexistentLeaf(d, locus)
        ELSE IF locus.second.type = "NoneType" THEN OnGroup(d, locus)
        ELSE OnLeaf(d, locus)

\* mutant: the first token is not required to be a FLAG
InvokeUnguarded(d) == InvokeMatch(d)
\* invoke() up to its first await
Invoke(d) ==
    IF d.full_arguments[1][1] # "FLAG" THEN Respond(d, ResponseNone)
    ELSE InvokeMatch(d)

\* invoke() once db.trick.find_unique has answered: trick is <<>> or <<body>>
AfterTrick(d, trick) ==
    LET q == Step(d, "trick")
    IN  IF trick # <<>> THEN Respond(q, ResponseStr(trick[1]))
        ELSE OnCommandError(q, NoSuchMessage(d, d.locus))

\* mutant: holding the admin group does not bypass the check
DeniesAdminToo(current_groups, allowed_groups) ==
    /\ Cardinality(allowed_groups) # 0
    /\ Cardinality(current_groups \cap allowed_groups) = 0
\* the condition under which check_permissions raises
Denies(current_groups, allowed_groups) ==
    /\ ADMIN_GROUP \notin current_groups
    /\ Cardinality(allowed_groups) # 0
    /\ Cardinality(current_groups \cap allowed_groups) = 0

RECURSIVE Underscored(_)
\* [f"_{name}_" for name in names], as pieces
Underscored(names) ==
    IF names = <<>> THEN <<>>
    ELSE <<"_" , names[1], "_">> \o
         (IF Len(names) > 1 THEN <<" | ">> ELSE <<>>) \o Underscored(Tail(names))

\* prepare_arguments and the start of the handler call
Bind(d) ==
    LET r == prepare_arguments(d.locus.first, d.locus.second.list,
                               d.explicit_arguments, Context)
        q == Step(d, "prepare_arguments")
    IN  IF r.ok THEN [q EXCEPT !.pc = "command", !.argument_values = r.value]
        ELSE OnCommandError(q, r.message)

\* mutant: the arguments are bound before the permissions are checked
AfterPermissionsBindFirst(d, allowed_groups, order) ==
    LET q == [Step(d, "check_permissions") EXCEPT !.allowed = allowed_groups]
        b == Bind(q)
    IN  IF b.failure # <<>> THEN b
        ELSE IF Denies(d.groups, allowed_groups)
        THEN OnCommandError(q, <<"Only members of groups ">> \o Underscored(order)
                               \o <<" may run that command.">>)
        ELSE b
\* invoke() once db.commandpermission.find_many has answered; order is the
\* order in which the set allowed_groups is iterated
AfterPermissions(d, allowed_groups, order) ==
    LET q == [Step(d, "check_permissions") EXCEPT !.allowed = allowed_groups]
    IN  IF Denies(d.groups, allowed_groups)
        THEN OnCommandError(q, <<"Only members of groups ">> \o Underscored(order)
                               \o <<" may run that command.">>)
        ELSE Bind(q)

\* handle() once the handler has finished: outcome is what it did
AfterCommand(d, outcome) ==
    LET q == Step(d, "command")
    IN  IF outcome.kind = "return" THEN Respond(q, outcome.response)
        ELSE IF outcome.kind = "CommandError" THEN OnCommandError(q, outcome.message)
        ELSE [q EXCEPT !.pc = "raised"]

\* what a handler may do: return plain text or a (text, reply target) pair,
\* raise CommandError, raise another exception
Outcomes ==
    {[kind |-> "return", response |-> ResponseStr(<<"done">>), message |-> <<>>],
     [kind |-> "return", response |-> ResponsePair(<<"done">>, 0), message |-> <<>>],
     [kind |-> "CommandError", response |-> ResponseNone, message |-> <<"handler failed">>],
     [kind |-> "Exception", response |-> ResponseNone, message |-> <<>>]}

\* what parse_arguments may do: raise ParseError or return (arguments, explicit_arguments)
ParseResults ==
    {[ok |-> FALSE, message |-> <<"unterminated string">>, arguments |-> <<>>, explicit |-> <<>>]}
    \cup {[ok |-> TRUE, message |-> <<>>, arguments |-> a, explicit |-> x] :
             a \in TokenLists, x \in ExplicitMaps}

\* handle() from the answer of db.user.upsert up to its next await
Handle(d, groups, parsed) ==
    LET q == [Step(Step(d, "upsert"), "parse_arguments") EXCEPT !.groups = groups]
    IN  IF ~parsed.ok THEN OnParseError(q, parsed.message)
        ELSE Invoke([q EXCEPT !.full_arguments = parsed.arguments,
                              !.explicit_arguments = parsed.explicit])

(***************************************************************************)
(* The event loop                                                          *)
(***************************************************************************)
Ended == {"ignored", "returned"}

\* mutant: handle() is started as a task and not awaited
HandleNotAwaited(e) == TRUE
\* await self.handle(...): run() takes event e only after the dispatch of
\* every earlier event has returned to it
AwaitHandle(e) == \A f \in Events : f < e => disp[f].pc \in Ended

\* the locals of a dispatch that has returned are gone
Forget(d) == IF d.pc \in Ended THEN Blank(d.pc) ELSE d

\* async for event in self.room.events(): match event
TakeEvent(e) ==
    /\ loop = "running"
    /\ e = taken + 1
    /\ AwaitHandle(e)
    /\ taken' = e
    /\ \E command \in BOOLEAN, name \in UserNames, uid \in UserIds :
          disp' = [f \in Events |->
                     IF f # e THEN Forget(disp[f])
                     ELSE IF command
                     THEN [Blank("fetch") EXCEPT !.message_id = e, !.user_id = uid,
                                                 !.user_name = name]
                     ELSE Blank("ignored")]
    /\ UNCHANGED <<loop, dbUsers, bLeaf, bArgs, bExplicit, bResult, web>>

\* session.get(...) has answered: the plain content starts with the prefix or not
FetchContent(e) ==
    /\ disp[e].pc = "fetch"
    /\ \E prefixed \in BOOLEAN :
          disp' = [disp EXCEPT ![e] =
                     IF prefixed THEN [Step(@, "fetch") EXCEPT !.pc = "upsert"]
                     ELSE Blank("ignored")]
    /\ UNCHANGED <<taken, loop, dbUsers, bLeaf, bArgs, bExplicit, bResult, web>>

\* db.user.upsert has answered; a user it creates has no groups
Upsert(e) ==
    /\ disp[e].pc = "upsert"
    /\ dbUsers' = Put(dbUsers, disp[e].user_id, disp[e].user_name)
    /\ \E groups \in SUBSET Groups, parsed \in ParseResults :
          /\ disp[e].user_id \notin DOMAIN dbUsers => groups = {}
          /\ disp' = [disp EXCEPT ![e] = Handle(@, groups, parsed)]
    /\ UNCHANGED <<taken, loop, bLeaf, bArgs, bExplicit, bResult, web>>

\* db.trick.find_unique has answered
TrickLookup(e) ==
    /\ disp[e].pc = "trick"
    /\ \E trick \in {<<>>, <<TrickBody>>} :
          disp' = [disp EXCEPT ![e] = AfterTrick(@, trick)]
    /\ UNCHANGED <<taken, loop, dbUsers, bLeaf, bArgs, bExplicit, bResult, web>>

\* db.commandpermission.find_many has answered
CheckPermissions(e) ==
    /\ disp[e].pc = "check_permissions"
    /\ \E allowed_groups \in SUBSET Groups :
          \E order \in Orders(allowed_groups) :
              disp' = [disp EXCEPT ![e] = AfterPermissions(@, allowed_groups, order)]
    /\ UNCHANGED <<taken, loop, dbUsers, bLeaf, bArgs, bExplicit, bResult, web>>

\* await command(**argument_values) has finished
Command(e) ==
    /\ disp[e].pc = "command"
    /\ \E outcome \in Outcomes :
          /\ disp' = [disp EXCEPT ![e] = AfterCommand(@, outcome)]
          /\ loop' = IF outcome.kind = "Exception" THEN "crashed" ELSE loop
    /\ UNCHANGED <<taken, dbUsers, bLeaf, bArgs, bExplicit, bResult, web>>

\* await self.room.send(...) has finished; handle() returns
Send(e) ==
    /\ disp[e].pc = "send"
    /\ disp' = [disp EXCEPT ![e] =
                  [Step(@, "send") EXCEPT !.pc = "returned", !.pending = <<>>,
                                           !.sent = @ \o disp[e].pending]]
    /\ UNCHANGED <<taken, loop, dbUsers, bLeaf, bArgs, bExplicit, bResult, web>>

\* the deliveries GitHub makes to the webhook endpoint
Requests == 1..MaxRequests
NoRepository == [present |-> FALSE, visibility |-> "", name |-> ""]
NoData == [event |-> "", action |-> "", ref_kind |-> "", commits |-> 0,
           self_assigned |-> FALSE, state |-> "", body |-> FALSE]
NoDelivery == [valid |-> FALSE, repository |-> NoRepository, data |-> NoData]
\* the locals of one handle_request call; pc is the await it is suspended at:
\* "waiting" (not yet delivered), "read", "send", "responded"
NoRequest ==
    [pc |-> "waiting", delivery |-> NoDelivery, dispatched |-> 0, callback |-> "",
     generator |-> <<>>, pending |-> <<>>, sent |-> <<>>, error |-> "",
     logged |-> FALSE, status |-> 0]

\* the user table at start: empty, or holding users of earlier runs
Init ==
    /\ disp = [e \in Events |-> Blank("waiting")]
    /\ taken = 0
    /\ loop = "running"
    /\ dbUsers \in UNION {[S -> UserNames] : S \in SUBSET UserIds}
    /\ bLeaf = NoCommand
    /\ bArgs = <<>>
    /\ bExplicit = <<>>
    /\ bResult = Unbound
    /\ web = [q \in Requests |-> NoRequest]

Next ==
    \E e \in Events :
        \/ TakeEvent(e)
        \/ FetchContent(e)
        \/ Upsert(e)
        \/ TrickLookup(e)
        \/ CheckPermissions(e)
        \/ Command(e)
        \/ Send(e)

Spec == Init /\ [][Next]_vars

(***************************************************************************)
(* BindSpec: prepare_arguments applied to a command, positional tokens and *)
(* keyword tokens drawn from bounded sets.                                 *)
(***************************************************************************)
Mode == EnumOf(<<"a", "b">>)
BindParameters ==
    {Parameter("n", Plain("int"), FALSE),
     Parameter("w", Plain("word"), FALSE),
     Parameter("s", Union("str"), TRUE),
     Parameter("mode", Mode, FALSE),
     Parameter("event", Plain("MessageEvent"), FALSE)}
\* signatures of at most MaxParams parameters, their names distinct
BindLeaves ==
    {CommandLeaf(<<"bound", "_command">>, ps) :
        ps \in {q \in UNION {[1..n -> BindParameters] : n \in 0..MaxParams} :
                  \A i, j \in DOMAIN q : i # j => q[i].name # q[j].name}}
BindTokens == {<<"FLAG", "a">>, <<"FLAG", "A">>, <<"WORD", "hi">>,
               <<"STRING", "hi">>, <<"NUMBER", "1">>}
\* at most one token more than the signature has parameters
BindArguments(leaf) == UNION {[1..n -> BindTokens] : n \in 0..(Len(leaf.parameters) + 1)}
BindExplicit ==
    {<<>>} \cup {<< <<name, token>> >> :
                   name \in {"n", "mode", "event", "bogus"},
                   token \in {<<"FLAG", "a">>, <<"STRING", "hi">>, <<"NUMBER", "1">>}}

BindInit ==
    /\ disp = [e \in Events |-> Blank("waiting")]
    /\ taken = 0
    /\ loop = "running"
    /\ dbUsers = <<>>
    /\ bLeaf \in BindLeaves
    /\ bArgs \in BindArguments(bLeaf)
    /\ bExplicit \in BindExplicit
    /\ bResult = Unbound
    /\ web = [q \in Requests |-> NoRequest]

\* argument_values = self.prepare_arguments(command, arguments, explicit_arguments, {...})
BindCall ==
    /\ bResult = Unbound
    /\ bResult' = prepare_arguments(bLeaf, bArgs, bExplicit, Context)
    /\ UNCHANGED <<disp, taken, loop, dbUsers, bLeaf, bArgs, bExplicit, web>>

BindNext == BindCall

BindSpec == BindInit /\ [][BindNext]_vars

(***************************************************************************)
(* WebSpec: handle_request for the deliveries of GitHub.  A delivery is    *)
(* the outcome of Event.from_http (valid or not), the "repository" entry   *)
(* of the payload and the payload fields the handlers branch on.  A        *)
(* message is the template a handler yields and the number it carries.     *)
(***************************************************************************)
PushListLimit == 5
ignored_repositories == {"ignored"}

Repository(v, n) == [present |-> TRUE, visibility |-> v, name |-> n]
Repositories ==
    {NoRepository, Repository("public", "Vyxal"), Repository("private", "Vyxal"),
     Repository("public", "ignored")}

Data(ev, action) == [NoData EXCEPT !.event = ev, !.action = action]
WebEvents ==
    {[Data("push", "") EXCEPT !.ref_kind = "heads", !.commits = n] : n \in 0..MaxCommits}
    \cup {[Data("push", "") EXCEPT !.ref_kind = "tags", !.commits = 1]}
    \cup {[Data("issues", "assigned") EXCEPT !.self_assigned = b] : b \in BOOLEAN}
    \cup {Data("issues", a) : a \in {"closed", "opened", "labeled"}}
    \cup {Data("pull_request", a) : a \in {"closed", "opened", "labeled"}}
    \cup {[Data("pull_request_review", "submitted") EXCEPT !.state = s, !.body = b] :
             s \in {"commented", "approved", "dismissed"}, b \in BOOLEAN}
    \cup {[Data("pull_request_review", "edited") EXCEPT !.state = "approved"]}
    \cup {Data("create", ""), Data("delete", ""), Data("fork", "")}
    \cup {Data("release", a) : a \in {"released", "published"}}
    \cup {Data("repository", "created"), Data("ping", "")}
Deliveries ==
    {NoDelivery}
    \cup {[valid |-> TRUE, repository |-> r, data |-> d] :
             r \in Repositories, d \in WebEvents}

Text(t, n) == [text |-> t, n |-> n]
\* what running a handler generator gives: the messages it yields in order,
\* or the exception it raises before its first yield
Yields(messages) == [raised |-> FALSE, yields |-> messages]
KeyError == [raised |-> TRUE, yields |-> <<>>]

on_push(data, repository) ==
    IF data.ref_kind # "heads" THEN Yields(<<>>)
    ELSE IF ~repository.present THEN KeyError
    ELSE IF data.commits <= PushListLimit
    THEN Yields([i \in 1..data.commits |-> Text("pushed a commit", i)])
    ELSE Yields(<<Text("pushed commits", data.commits)>>)

on_issue(data, repository) ==
    IF ~repository.present THEN KeyError
    ELSE IF data.action \in {"assigned", "unassigned"}
    THEN Yields(<<Text("assigned to issue", 0)>>
                \o (IF data.self_assigned THEN <<Text("image", 0)>> ELSE <<>>))
    ELSE IF data.action = "closed" THEN Yields(<<Text("closed issue", 0)>>)
    ELSE IF data.action \in {"opened", "reopened"} THEN Yields(<<Text("opened issue", 0)>>)
    ELSE Yields(<<>>)

on_pull_request(data, repository) ==
    IF ~repository.present THEN KeyError
    ELSE IF data.action \in {"assigned", "unassigned", "closed", "ready_for_review",
                             "opened", "reopened", "enqueued"}
    THEN Yields(<<Text("pull request", 0)>>)
    ELSE Yields(<<>>)

on_review_submitted(data, repository) ==
    IF ~repository.present THEN KeyError
    ELSE IF data.state = "commented"
    THEN IF ~data.body THEN Yields(<<>>) ELSE Yields(<<Text("commented on", 0)>>)
    ELSE IF data.state = "approved" THEN Yields(<<Text("approved", 0)>>)
    ELSE IF data.state = "changes_requested" THEN Yields(<<Text("requested changes on", 0)>>)
    ELSE Yields(<<>>)

on_ref_change(data, repository) ==
    IF ~repository.present THEN KeyError ELSE Yields(<<Text("ref changed", 0)>>)
on_release(data, repository) ==
    IF ~repository.present THEN KeyError ELSE Yields(<<Text("release", 0)>>)
on_fork(data, repository) ==
    IF ~repository.present THEN KeyError ELSE Yields(<<Text("forked", 0)>>)
on_repository(data, repository) ==
    IF ~repository.present THEN KeyError ELSE Yields(<<Text("repository", 0)>>)

\* router.fetch(event): the callbacks registered for the event and its action
Callbacks(data) ==
    IF data.event = "push" THEN <<"on_push">>
    ELSE IF data.event = "issues" THEN <<"on_issue">>
    ELSE IF data.event = "pull_request" THEN <<"on_pull_request">>
    ELSE IF data.event = "pull_request_review" /\ data.action = "submitted"
    THEN <<"on_review_submitted">>
    ELSE IF data.event \in {"create", "delete"} THEN <<"on_ref_change">>
    ELSE IF data.event = "release" /\ data.action = "released" THEN <<"on_release">>
    ELSE IF data.event = "fork" THEN <<"on_fork">>
    ELSE IF data.event = "repository" THEN <<"on_repository">>
    ELSE <<>>

\* generator = func(event, self.room), run to its end
Generator(callback, data, repository) ==
    IF callback = "on_push" THEN on_push(data, repository)
    ELSE IF callback = "on_issue" THEN on_issue(data, repository)
    ELSE IF callback = "on_pull_request" THEN on_pull_request(data, repository)
    ELSE IF callback = "on_review_submitted" THEN on_review_submitted(data, repository)
    ELSE IF callback = "on_ref_change" THEN on_ref_change(data, repository)
    ELSE IF callback = "on_release" THEN on_release(data, repository)
    ELSE IF callback = "on_fork" THEN on_fork(data, repository)
    ELSE on_repository(data, repository)

\* return Response(status=...)
Response(w, status) == [w EXCEPT !.pc = "responded", !.status = status]
\* except Exception: self.logger.exception(...); return Response(status=500)
OnException(w, error) ==
    Response([w EXCEPT !.error = error, !.logged = TRUE, !.pending = <<>>], 500)

\* message = await anext(generator): the statement is outside the try of the
\* loop, so the StopAsyncIteration of a generator that is already finished
\* leaves the wrapper like any other exception
Anext(w, g) ==
    IF g.raised THEN OnException(w, "KeyError")
    ELSE IF g.yields = <<>> THEN OnException(w, "StopAsyncIteration")
    ELSE [w EXCEPT !.pc = "send", !.pending = <<Head(g.yields)>>,
                   !.generator = Tail(g.yields)]

\* message = await generator.asend(message_id), inside the try:
\* except StopAsyncIteration: break, and dispatch returns
Asend(w) ==
    IF w.generator = <<>> THEN Response(w, 200)
    ELSE [w EXCEPT !.pc = "send", !.pending = <<Head(w.generator)>>,
                   !.generator = Tail(w.generator)]

\* await self.router.dispatch(event, self)
Dispatch(w) ==
    LET callbacks == Callbacks(w.delivery.data)
        d == [w EXCEPT !.dispatched = @ + 1]
    IN  IF callbacks = <<>> THEN Response(d, 200)
        ELSE Anext([d EXCEPT !.callback = callbacks[1]],
                   Generator(callbacks[1], w.delivery.data, w.delivery.repository))

\* mutant: only a private repository is skipped, the ignored names are reported
SkippedPrivateOnly(repository) ==
    /\ repository.present
    /\ repository.visibility = "private"
\* the repository of the payload is private or one of the ignored ones
Skipped(repository) ==
    /\ repository.present
    /\ repository.visibility = "private" \/ repository.name \in ignored_repositories

\* handle_request once request.read() has answered, up to its next await
handle_request(w) ==
    IF ~w.delivery.valid THEN Response(w, 400)
    ELSE IF Skipped(w.delivery.repository) THEN Response(w, 200)
    ELSE Dispatch(w)

\* the wrapper once room.send has answered: it returned an id, or raised
AfterSend(w, ok) ==
    IF ~ok THEN OnException(w, "SendError")
    ELSE Asend([w EXCEPT !.sent = @ \o w.pending, !.pending = <<>>])

\* GitHub posts a delivery; handle_request awaits request.read()
Deliver(q) ==
    /\ web[q].pc = "waiting"
    /\ \E delivery \in Deliveries :
          web' = [web EXCEPT ![q] = [@ EXCEPT !.pc = "read", !.delivery = delivery]]
    /\ UNCHANGED <<disp, taken, loop, dbUsers, bLeaf, bArgs, bExplicit, bResult>>

\* request.read() has answered
HandleRequest(q) ==
    /\ web[q].pc = "read"
    /\ web' = [web EXCEPT ![q] = handle_request(@)]
    /\ UNCHANGED <<disp, taken, loop, dbUsers, bLeaf, bArgs, bExplicit, bResult>>

\* room.send has answered
RoomSend(q) ==
    /\ web[q].pc = "send"
    /\ \E ok \in BOOLEAN : web' = [web EXCEPT ![q] = AfterSend(@, ok)]
    /\ UNCHANGED <<disp, taken, loop, dbUsers, bLeaf, bArgs, bExplicit, bResult>>

WebInit ==
    /\ disp = [e \in Events |-> Blank("waiting")]
    /\ taken = 0
    /\ loop = "running"
    /\ dbUsers = <<>>
    /\ bLeaf = NoCommand
    /\ bArgs = <<>>
    /\ bExplicit = <<>>
    /\ bResult = Unbound
    /\ web = [q \in Requests |-> NoRequest]

WebNext ==
    \E q \in Requests :
        \/ Deliver(q)
        \/ HandleRequest(q)
        \/ RoomSend(q)

WebSpec == WebInit /\ [][WebNext]_vars

(***************************************************************************)
(* Properties of the event loop (Spec)                                     *)
(***************************************************************************)
\* the position of step x in steps, 0 when it was not taken
Pos(steps, x) ==
    IF \E i \in DOMAIN steps : steps[i] = x
    THEN CHOOSE i \in DOMAIN steps : steps[i] = x
    ELSE 0
Took(d, x) == Pos(d.steps, x) # 0
NoRepeat(steps) == \A i, j \in DOMAIN steps : i # j => steps[i] # steps[j]

\* the text handle() sends for the failure it caught
FailureText(f) ==
    IF f.exc = "ParseError" THEN <<"Parse error: ">> \o f.message ELSE f.message

\* the permission rule as the specification words it
UserDenied(groups, allowed) ==
    /\ allowed # {}
    /\ ADMIN_GROUP \notin groups
    /\ \A g \in groups : g \notin allowed
IsPermissionDenied(d) ==
    /\ d.failure # <<>>
    /\ d.failure[1].exc = "CommandError"
    /\ d.failure[1].message[1] = "Only members of groups "

\* C1: a dispatch that caught a classified failure (ParseError or
\* CommandError) sends exactly one message, the error text, as a reply to
\* the triggering message id, then returns; it takes no step twice.
C1_FailureRepliedOnce ==
    \A e \in Events :
        LET d == disp[e]
        IN  d.failure # <<>> =>
              LET reply == Message(FailureText(d.failure[1]), d.message_id)
              IN  /\ d.pc \in {"send", "returned"}
                  /\ d.pc = "send" => d.sent = <<>> /\ d.pending = <<reply>>
                  /\ d.pc = "returned" => d.sent = <<reply>> /\ d.pending = <<>>
                  /\ NoRepeat(d.steps)
C1_Witness ==
    \E e \in Events :
        /\ disp[e].failure # <<>>
        /\ disp[e].failure[1].exc = "CommandError"
        /\ disp[e].pc = "returned"
        /\ Took(disp[e], "prepare_arguments")

\* C2 (as claimed): no failure of a dispatch ends the event loop; a handler
\* that raised an unexpected exception is still answered with one message.
C2_LoopSurvives ==
    /\ loop = "running"
    /\ \A e \in Events : disp[e].pc # "raised"

\* C3: no step of a later event is taken before the dispatch of every
\* earlier event has returned; while a handler has not returned, every
\* later event is still waiting.
C3_NoInterleaving ==
    \A e1, e2 \in Events :
        e1 < e2 /\ disp[e2].pc # "waiting" => disp[e1].pc \in {"ignored", "returned"}
C3_Witness ==
    \E e1, e2 \in Events :
        /\ e1 < e2
        /\ disp[e1].pc = "returned"
        /\ disp[e2].pc = "command"

C5_StepOrder ==
    \A e \in Events :
        LET d == disp[e]
            bound == prepare_arguments(d.locus.first, d.locus.second.list,
                                       d.explicit_arguments, Context)
        IN  /\ Took(d, "check_permissions") =>
                  /\ d.locus.second.type = "list"
                  /\ 0 < Pos(d.steps, "split_arguments")
                  /\ Pos(d.steps, "split_arguments") < Pos(d.steps, "check_permissions")
            /\ Took(d, "prepare_arguments") =>
                  /\ 0 < Pos(d.steps, "check_permissions")
                  /\ Pos(d.steps, "check_permissions") < Pos(d.steps, "prepare_arguments")
                  /\ ~UserDenied(d.groups, d.allowed)
            /\ (d.pc = "command" \/ Took(d, "command")) =>
                  /\ 0 < Pos(d.steps, "prepare_arguments")
                  /\ Took(d, "command") =>
                        Pos(d.steps, "prepare_arguments") < Pos(d.steps, "command")
                  /\ bound.ok /\ d.argument_values = bound.value
            /\ (Took(d, "check_permissions") /\ UserDenied(d.groups, d.allowed)) =>
                  /\ IsPermissionDenied(d)
                  /\ ~Took(d, "prepare_arguments") /\ ~Took(d, "command")
C5_Witness ==
    \E e \in Events :
        LET d == disp[e]
        IN  /\ Took(d, "check_permissions")
            /\ UserDenied(d.groups, d.allowed)
            /\ ~prepare_arguments(d.locus.first, d.locus.second.list,
                                  d.explicit_arguments, Context).ok
            /\ d.pc = "returned"
            /\ IsPermissionDenied(d)

\* the group names a PermissionDenied message lists
ListedGroups(message) == {message[i] : i \in {j \in DOMAIN message : message[j] \in Groups}}

\* C6: the step in which check_permissions answers raises PermissionDenied
\* exactly when the allowed set is non-empty, the user lacks the admin
\* group and holds no allowed group; the message lists the allowed groups;
\* an admin is never denied; the store was asked for the canonical name,
\* the flag names of the command joined by spaces; the step writes nothing
\* to the user table and sends nothing.
C6_PermissionRule ==
    [][\A e \in Events :
         (disp[e].pc = "check_permissions" /\ disp'[e].pc # "check_permissions") =>
            /\ IsPermissionDenied(disp'[e])
                  <=> UserDenied(disp'[e].groups, disp'[e].allowed)
            /\ IsPermissionDenied(disp'[e])
                  => ListedGroups(disp'[e].failure[1].message) = disp'[e].allowed
            /\ ADMIN_GROUP \in disp'[e].groups => ~IsPermissionDenied(disp'[e])
            /\ disp'[e].permission_query =
                  Join(" ", Values(SubSeq(disp'[e].full_arguments, 1,
                                          Len(disp'[e].full_arguments)
                                            - Len(disp'[e].locus.second.list))))
            /\ disp'[e].groups = disp[e].groups
            /\ dbUsers' = dbUsers
            /\ disp'[e].sent = disp[e].sent]_vars
C6_Witness ==
    \E e \in Events :
        /\ Took(disp[e], "check_permissions")
        /\ ADMIN_GROUP \in disp[e].groups
        /\ disp[e].allowed = {"mod"}
        /\ disp[e].pc = "command"

\* C7: on a nonexistent-leaf locus, at the root or in a nested group, the
\* Trick store is asked for the unmatched name before any error exists; a
\* hit is answered with the trick's body as a reply to the triggering
\* message and the dispatch returns without permission check, binding or
\* handler; only a miss produces the no-such-command error.
C7_TrickBeforeError ==
    \A e \in Events :
        LET d == disp[e]
            reply == Message(TrickBody, d.message_id)
        IN  d.locus.second.type = "str" =>
              /\ d.trick_query = d.locus.second.str
              /\ d.pc = "trick" => d.failure = <<>> /\ d.sent = <<>> /\ d.pending = <<>>
              /\ d.pc # "trick" => Took(d, "trick")
              /\ d.failure # <<>> => Took(d, "trick")
              /\ (Took(d, "trick") /\ d.failure = <<>>) =>
                    /\ d.pc \in {"send", "returned"}
                    /\ d.pc = "send" => d.pending = <<reply>>
                    /\ d.pc = "returned" => d.sent = <<reply>>
              /\ ~Took(d, "check_permissions")
              /\ ~Took(d, "prepare_arguments")
              /\ ~Took(d, "command")
C7_Witness ==
    \E e \in Events :
        LET d == disp[e]
        IN  /\ d.locus.second.type = "str"
            /\ d.locus.first # Tree
            /\ d.pc = "returned"
            /\ d.failure = <<>>
            /\ d.sent = <<Message(TrickBody, d.message_id)>>

(***************************************************************************)
(* Properties of the binder (BindSpec)                                     *)
(***************************************************************************)
NotIgnored(p) == p.name \notin IGNORED_PARAMETERS
IsRequired(p) == ~p.hasDefault
IsOptional(p) == p.hasDefault
\* the parameters a user can supply, in declaration order
UserParameters(leaf) == SelectSeq(leaf.parameters, NotIgnored)

\* the token kind a parameter takes, as the specification words it
KindOf(p) ==
    IF p.annotation.kind = "enum" THEN "FLAG"
    ELSE IF p.annotation.type = "int" THEN "NUMBER"
    ELSE IF p.annotation.type = "str" THEN "STRING"
    ELSE "WORD"
Literals(p) == {p.annotation.members[i] : i \in DOMAIN p.annotation.members}
Matches(token, p) ==
    /\ token[1] = KindOf(p)
    /\ p.annotation.kind = "enum" => token[2] \in Literals(p)

MissingText(p) ==
    <<"Argument ", p.name, " not provided, expected a value of type **", KindOf(p), "**.">>
SuperfluousText(token) ==
    <<"Superfluous arguments supplied starting at ", token[2], ".">>

\* C8 (as claimed): for a command whose user parameters are k required ones
\* followed by m optional ones, with no keyword token: k matching tokens
\* bind; k-1 matching tokens raise MissingArgument for the last required
\* parameter; k+m+1 tokens raise SuperfluousArguments naming the first
\* excess token.
C8_ArityRule ==
    LET ups == UserParameters(bLeaf)
        req == SelectSeq(ups, IsRequired)
        opt == SelectSeq(ups, IsOptional)
        k == Len(req)
        m == Len(opt)
    IN  (bResult # Unbound /\ bExplicit = <<>> /\ ups = req \o opt) =>
          /\ (Len(bArgs) = k /\ \A i \in 1..k : Matches(bArgs[i], req[i]))
                => bResult.ok
          /\ (k >= 1 /\ Len(bArgs) = k - 1
                /\ \A i \in 1..(k - 1) : Matches(bArgs[i], req[i]))
                => ~bResult.ok /\ bResult.message = MissingText(req[k])
          /\ (Len(bArgs) = k + m + 1 /\ \A i \in 1..(k + m) : Matches(bArgs[i], ups[i]))
                => ~bResult.ok /\ bResult.message = SuperfluousText(bArgs[k + m + 1])

\* the parameters bound by the positional tokens, when no positional token fails
PositionalNames ==
    {bLeaf.parameters[i].name :
        i \in {j \in DOMAIN bLeaf.parameters :
                 j <= Len(bArgs) /\ NotIgnored(bLeaf.parameters[j])}}
PositionalOk == PositionalPhase(bLeaf.parameters, bArgs, 1, <<>>).ok
TokenValue(p, token) ==
    IF p.annotation.kind = "enum" THEN [tag |-> "enum", v |-> token[2]]
    ELSE [tag |-> "token", v |-> token[2]]

\* C9: once the positional tokens are bound, a keyword token whose name is
\* reserved raises IllegalArgument, one whose name a positional token
\* already bound raises "multiple values", one whose name the command does
\* not declare raises UnknownArgument; in a successful binding every
\* positionally bound value is the positional token's, the keyword's name
\* is a declared, unreserved, not positionally bound parameter, and every
\* reserved name holds the context value.
C9_KeywordRule ==
    (bResult # Unbound /\ Len(bExplicit) = 1 /\ PositionalOk) =>
        LET name == bExplicit[1][1]
            declared == ParameterNames(bLeaf.parameters)
        IN  /\ name \in IGNORED_PARAMETERS =>
                  /\ ~bResult.ok
                  /\ bResult.message = <<"Illegal argument ", name, " supplied.">>
            /\ name \in PositionalNames =>
                  /\ ~bResult.ok
                  /\ bResult.message =
                        <<"Multiple values supplied for argument ", name, ".">>
            /\ (name \notin declared /\ name \notin IGNORED_PARAMETERS) =>
                  /\ ~bResult.ok
                  /\ bResult.message = <<"Unknown argument ", name, " supplied.">>
            /\ bResult.ok =>
                  /\ name \in declared \ (IGNORED_PARAMETERS \cup PositionalNames)
                  /\ \A i \in DOMAIN bLeaf.parameters :
                        LET p == bLeaf.parameters[i]
                        IN  /\ p.name \in PositionalNames =>
                                  bResult.value[p.name] = TokenValue(p, bArgs[i])
                            /\ p.name \in IGNORED_PARAMETERS =>
                                  bResult.value[p.name].tag = "context"
C9_Witness ==
    /\ bResult # Unbound /\ ~bResult.ok
    /\ Len(bExplicit) = 1 /\ bExplicit[1][1] \in PositionalNames
    /\ PositionalOk
    /\ bResult.message = <<"Multiple values supplied for argument ", bExplicit[1][1], ".">>

\* the token the binder pairs with the i-th parameter: the i-th positional
\* token, else the keyword token of that name, else none
SourceToken(i) ==
    LET p == bLeaf.parameters[i]
    IN  IF i <= Len(bArgs) THEN <<bArgs[i]>>
        ELSE IF bExplicit # <<>> /\ bExplicit[1][1] = p.name THEN <<bExplicit[1][2]>>
        ELSE <<>>
TypeMismatchText(p, token) ==
    <<"Incorrect type supplied for argument ", p.name, "; expected **", KindOf(p),
      "** but got **", token[1], "**">>
InvalidEnumText(p) ==
    <<"Invalid value supplied for argument ", p.name, "; expected one of ">>
    \o Join("/", p.annotation.members) \o <<".">>

\* C10: in a mapping a successful binding returns, every user parameter
\* without a default is present; every user-supplied value of a
\* WORD/STRING/NUMBER parameter is the value of a token of exactly that
\* kind, and of an enum parameter the member named by a FLAG token whose
\* name is, letter for letter, one of its literals. The first positional
\* token of another kind raises TypeMismatch naming both kinds; the first
\* FLAG that is no literal raises InvalidEnumLiteral listing the literals
\* joined by "/"; so does a keyword token, once the positional tokens are
\* bound.
C10_BoundValues ==
    bResult # Unbound =>
        /\ bResult.ok =>
              \A i \in DOMAIN bLeaf.parameters :
                  LET p == bLeaf.parameters[i]
                  IN  NotIgnored(p) =>
                        /\ IsRequired(p) => p.name \in DOMAIN bResult.value
                        /\ p.name \in DOMAIN bResult.value =>
                              /\ SourceToken(i) # <<>>
                              /\ Matches(SourceToken(i)[1], p)
                              /\ bResult.value[p.name] = TokenValue(p, SourceToken(i)[1])
        /\ \A i \in DOMAIN bLeaf.parameters :
              LET p == bLeaf.parameters[i]
              IN  (/\ i <= Len(bArgs)
                   /\ NotIgnored(p)
                   /\ ~Matches(bArgs[i], p)
                   /\ \A j \in 1..(i - 1) :
                         NotIgnored(bLeaf.parameters[j])
                            => Matches(bArgs[j], bLeaf.parameters[j]))
                  => /\ ~bResult.ok
                     /\ bResult.message =
                           IF bArgs[i][1] = KindOf(p) THEN InvalidEnumText(p)
                           ELSE TypeMismatchText(p, bArgs[i])
        /\ \A i \in DOMAIN bLeaf.parameters :
              LET p == bLeaf.parameters[i]
              IN  (/\ PositionalOk
                   /\ Len(bExplicit) = 1 /\ bExplicit[1][1] = p.name
                   /\ NotIgnored(p) /\ p.name \notin PositionalNames
                   /\ ~Matches(bExplicit[1][2], p))
                  => /\ ~bResult.ok
                     /\ bResult.message =
                           IF bExplicit[1][2][1] = KindOf(p) THEN InvalidEnumText(p)
                           ELSE TypeMismatchText(p, bExplicit[1][2])
C10_Witness ==
    /\ bResult # Unbound /\ bResult.ok
    /\ \E i \in DOMAIN bLeaf.parameters :
          /\ bLeaf.parameters[i].annotation.kind = "enum"
          /\ bLeaf.parameters[i].name \in DOMAIN bResult.value
          /\ bResult.value[bLeaf.parameters[i].name] = [tag |-> "enum", v |-> "a"]
    /\ \E i \in DOMAIN bLeaf.parameters :
          /\ bLeaf.parameters[i].annotation.kind = "plain"
          /\ bLeaf.parameters[i].name \in DOMAIN bResult.value
          /\ bResult.value[bLeaf.parameters[i].name].tag = "token"


(***************************************************************************)
(* Properties of the tree walk and of the replies (Spec)                   *)
(***************************************************************************)
KeysOf(node) == {node.keys[i] : i \in DOMAIN node.keys}

RECURSIVE Descent(_, _)
\* the number of leading tokens used as navigation from node: FLAG tokens,
\* each naming a key of the node reached so far, up to the first Leaf
Descent(node, arguments) ==
    IF node.kind # "group" \/ arguments = <<>> THEN 0
    ELSE IF arguments[1][1] # "FLAG" \/ arguments[1][2] \notin KeysOf(node) THEN 0
    ELSE 1 + Descent(node.children[arguments[1][2]], Tail(arguments))

RECURSIVE NodeAt(_, _)
\* the node reached from node by following names
NodeAt(node, names) ==
    IF names = <<>> THEN node ELSE NodeAt(node.children[names[1]], Tail(names))

\* the FLAG names the walk consumed, and the node it stopped at
Consumed(arguments) == Values(SubSeq(arguments, 1, Descent(Tree, arguments)))
Reached(arguments) == NodeAt(Tree, Consumed(arguments))

\* the walk stops on a FLAG name that is no key of the group it is in
StopsOnUnmatched(arguments) ==
    LET n == Descent(Tree, arguments)
    IN  /\ Reached(arguments).kind = "group"
        /\ n < Len(arguments)
        /\ arguments[n + 1][1] = "FLAG"
        /\ arguments[n + 1][2] \notin KeysOf(Reached(arguments))

Has(message, piece) == \E i \in DOMAIN message : message[i] = piece
\* the pieces of message that follow piece
After(message, piece) ==
    LET p == CHOOSE i \in DOMAIN message : message[i] = piece
    IN  SubSeq(message, p + 1, Len(message))

\* the dispatch asked the Trick store and it had no entry
TrickMissed(d) == Took(d, "trick") /\ d.failure # <<>>

\* C11: when the walk stops on a FLAG name that is no key of the current
\* node and the Trick store has no entry for it, the dispatch fails with
\* NoSuchCommand if the current node is the root and with NoSuchSubcommand
\* otherwise; the NoSuchSubcommand message names the unmatched name and
\* lists exactly the keys of the group in which the lookup failed.
C11_NoSuchAfterTrickMiss ==
    \A e \in Events :
        LET d == disp[e]
            n == Descent(Tree, d.full_arguments)
            name == d.full_arguments[n + 1][2]
            message == d.failure[1].message
        IN  (StopsOnUnmatched(d.full_arguments) /\ TrickMissed(d)) =>
              /\ d.failure[1].exc = "CommandError"
              /\ n = 0 => message = <<"There is no command named !!/", name, ".">>
              /\ n > 0 =>
                    /\ message[1] = "The group !!/"
                    /\ Has(message, " has no subcommand named \"")
                    /\ After(message, " has no subcommand named \"")
                          = <<name, "\". Its subcommands are: ">>
                            \o Join(", ", Reached(d.full_arguments).keys)
C11_Witness ==
    \E e \in Events :
        LET d == disp[e]
        IN  /\ StopsOnUnmatched(d.full_arguments)
            /\ Descent(Tree, d.full_arguments) > 0
            /\ TrickMissed(d)
            /\ d.pc = "returned"
            /\ Len(d.sent) = 1


\* the handler of the dispatch was invoked and returned normally
HandlerReturned(d) == Took(d, "command") /\ d.failure = <<>> /\ d.pc # "raised"

\* C12: after every handler invocation that returns normally the dispatch
\* sends exactly one message and then returns: a plain text is sent as a
\* reply to the triggering message, a (text, reply target) pair is sent with
\* that text to that target; no handler return is left without a message.
C12_HandlerReturnReplied ==
    \A e \in Events :
        LET d == disp[e]
            reply == IF d.response.type = "str"
                     THEN Message(d.response.message, d.message_id)
                     ELSE Message(d.response.message, d.response.reply_to)
        IN  HandlerReturned(d) =>
              /\ d.response.type \in {"str", "tuple"}
              /\ d.pc \in {"send", "returned"}
              /\ d.pc = "send" => d.sent = <<>> /\ d.pending = <<reply>>
              /\ d.pc = "returned" => d.sent = <<reply>> /\ d.pending = <<>>
              /\ NoRepeat(d.steps)
C12_Witness ==
    \E e \in Events :
        LET d == disp[e]
        IN  /\ HandlerReturned(d)
            /\ d.response.type = "tuple"
            /\ d.response.reply_to # d.message_id
            /\ d.pc = "returned"
            /\ d.sent = <<Message(d.response.message, d.response.reply_to)>>


\* the dispatch has asked the Trick store
Consulted(d) == d.pc = "trick" \/ Took(d, "trick")

\* C13 (as claimed): the Trick store is consulted only when the walk fails
\* at the root of the tree; never for a name unmatched inside a nested
\* group, for a walk that ends on a group, or for a resolved Leaf.
C13_TrickOnlyAtRoot ==
    \A e \in Events :
        LET d == disp[e]
        IN  Consulted(d) =>
              /\ StopsOnUnmatched(d.full_arguments)
              /\ Descent(Tree, d.full_arguments) = 0
\* C13 (amended): the Trick store is consulted exactly when the walk stops
\* on a FLAG name that is no key of the current node, at the root or inside
\* a nested group, and it is asked for that name; it is never consulted when
\* the walk ends on a group or resolves a Leaf, nor before the walk.
C13_TrickOnUnmatchedName ==
    \A e \in Events :
        LET d == disp[e]
            n == Descent(Tree, d.full_arguments)
        IN  /\ Consulted(d) =>
                  /\ Took(d, "split_arguments")
                  /\ StopsOnUnmatched(d.full_arguments)
                  /\ d.trick_query = d.full_arguments[n + 1][2]
            /\ (Took(d, "split_arguments") /\ StopsOnUnmatched(d.full_arguments))
                  => Consulted(d)
            /\ (Took(d, "split_arguments") /\ Reached(d.full_arguments).kind = "leaf")
                  => ~Consulted(d)
C13_Witness ==
    \E e \in Events :
        LET d == disp[e]
        IN  /\ Took(d, "trick")
            /\ StopsOnUnmatched(d.full_arguments)
            /\ Descent(Tree, d.full_arguments) = 1
            /\ d.trick_query = d.full_arguments[2][2]


\* the leading FLAG run has descended into a group and the next token is no FLAG
NonFlagInGroup(arguments) ==
    LET n == Descent(Tree, arguments)
    IN  /\ n > 0
        /\ Reached(arguments).kind = "group"
        /\ n < Len(arguments)
        /\ arguments[n + 1][1] # "FLAG"

IsGroupListing(message) == message # <<>> /\ message[1] = "Subcommands of !!/"

C16_LeafAndRemainingTokens ==
    \A e \in Events :
        LET d == disp[e]
            i == Descent(Tree, d.full_arguments)
            rest == SubSeq(d.full_arguments, i + 1, Len(d.full_arguments))
        IN  Took(d, "split_arguments") =>
              /\ d.locus.second.type = "list" <=> Reached(d.full_arguments).kind = "leaf"
              /\ d.locus.second.type = "list" =>
                    /\ i >= 1
                    /\ d.locus.first = Reached(d.full_arguments)
                    /\ d.locus.second.list = rest
                    /\ \A j \in 1..i : d.full_arguments[j][1] = "FLAG"
                    /\ d.permission_query = Join(" ", Consumed(d.full_arguments))
                    /\ Took(d, "prepare_arguments") =>
                          LET bound == prepare_arguments(d.locus.first, rest,
                                                         d.explicit_arguments, Context)
                          IN  IF bound.ok
                              THEN d.argument_values = bound.value
                              ELSE d.failure # <<>> /\ d.failure[1].message = bound.message
C16_Witness ==
    \E e \in Events :
        LET d == disp[e]
        IN  /\ d.locus.second.type = "list"
            /\ Descent(Tree, d.full_arguments) = 2
            /\ Len(d.locus.second.list) = 1
            /\ d.locus.second.list[1] = <<"FLAG", "sub">>
            /\ Took(d, "prepare_arguments")
            /\ d.pc = "returned"

\* every token was used as navigation and the walk is on a group
ExhaustedOnGroup(arguments) ==
    /\ arguments # <<>>
    /\ Descent(Tree, arguments) = Len(arguments)
    /\ Reached(arguments).kind = "group"

\* C17: when the tokens are exhausted while the walk is on a group, the
\* dispatch fails with the incomplete-group CommandError, whose message
\* names the group by the consumed FLAG names and lists exactly that
\* group's keys; it is answered with that one reply, and the Trick store,
\* the permission check and the handlers are not reached.
C17_ExhaustedOnGroupLists ==
    \A e \in Events :
        LET d == disp[e]
            text == <<"Subcommands of !!/">> \o Join(" ", Consumed(d.full_arguments))
                    \o <<" are: ">> \o Join(", ", Reached(d.full_arguments).keys)
        IN  (ExhaustedOnGroup(d.full_arguments) /\ Took(d, "split_arguments")) =>
              /\ d.locus = [first |-> Reached(d.full_arguments), second |-> SecondNone]
              /\ d.failure = <<[exc |-> "CommandError", message |-> text]>>
              /\ d.pc \in {"send", "returned"}
              /\ d.pc = "send" => d.pending = <<Message(text, d.message_id)>>
              /\ d.pc = "returned" => d.sent = <<Message(text, d.message_id)>>
              /\ ~Consulted(d) /\ d.trick_query = ""
              /\ ~Took(d, "check_permissions") /\ ~Took(d, "command")
C17_Witness ==
    \E e \in Events :
        LET d == disp[e]
        IN  /\ ExhaustedOnGroup(d.full_arguments)
            /\ d.pc = "returned"
            /\ Len(d.sent) = 1
            /\ d.sent[1].text = <<"Subcommands of !!/", "group", " are: ", "sub">>

\* the pieces of message between its first piece and piece
Between(message, piece) ==
    LET p == CHOOSE i \in DOMAIN message : message[i] = piece
    IN  SubSeq(message, 2, p - 1)

\* C20 (as claimed): in the NoSuchSubcommand and the IncompleteGroup message
\* the group named after "!!/" is the sequence of FLAG names the walk
\* consumed to reach the group, joined by spaces, whatever tokens follow.
C20_GroupNameIsConsumedPath ==
    \A e \in Events :
        LET d == disp[e]
            message == d.failure[1].message
            path == Join(" ", Consumed(d.full_arguments))
        IN  (d.failure # <<>> /\ Took(d, "split_arguments")) =>
              /\ message[1] = "The group !!/" =>
                    Between(message, " has no subcommand named \"") = path
              /\ message[1] = "Subcommands of !!/" =>
                    Between(message, " are: ") = path

(***************************************************************************)
(* Properties of the binder, continued (BindSpec)                          *)
(***************************************************************************)
\* C14 (as claimed): ignored parameters consume no positional token: in a
\* successful binding the i-th positional token is the value of the i-th
\* non-ignored parameter in declaration order, so there are no more tokens
\* than non-ignored parameters and no token is silently discarded.
C14_IgnoredConsumeNoToken ==
    LET ups == UserParameters(bLeaf)
    IN  (bResult # Unbound /\ bResult.ok) =>
          /\ Len(bArgs) <= Len(ups)
          /\ \A i \in 1..Len(bArgs) :
                /\ i <= Len(ups)
                /\ ups[i].name \in DOMAIN bResult.value
                /\ bResult.value[ups[i].name] = TokenValue(ups[i], bArgs[i])


ContextNames == {Context[i][1] : i \in DOMAIN Context}

\* C18 (as claimed): in every successful binding the returned mapping holds
\* the context value under every name of the context mapping, and no
\* binding fails with the multiple-values error for a context name.
C18_ContextAlwaysInjected ==
    bResult # Unbound =>
        /\ bResult.ok =>
              \A i \in DOMAIN Context :
                  /\ Context[i][1] \in DOMAIN bResult.value
                  /\ bResult.value[Context[i][1]] = Context[i][2]
        /\ ~bResult.ok =>
              \A name \in ContextNames :
                  bResult.message # <<"Multiple values supplied for argument ", name, ".">>
\* C18 (amended): in every successful binding, for every name of the context
\* mapping that the command declares as a parameter, the returned mapping
\* holds the context value under that name, whatever positional or keyword
\* tokens were supplied; a context name the command does not declare is
\* absent from the mapping; no binding fails with the multiple-values error
\* for a context name.
C18_DeclaredContextInjected ==
    bResult # Unbound =>
        /\ bResult.ok =>
              \A i \in DOMAIN Context :
                  IF Context[i][1] \in ParameterNames(bLeaf.parameters)
                  THEN /\ Context[i][1] \in DOMAIN bResult.value
                       /\ bResult.value[Context[i][1]] = Context[i][2]
                  ELSE Context[i][1] \notin DOMAIN bResult.value
        /\ ~bResult.ok =>
              \A name \in ContextNames :
                  bResult.message # <<"Multiple values supplied for argument ", name, ".">>
C18_Witness ==
    /\ bResult # Unbound /\ bResult.ok
    /\ Len(bLeaf.parameters) = 2 /\ Len(bArgs) = 2
    /\ bLeaf.parameters[1].name = "event"
    /\ bResult.value["event"] = Context[1][2]
    /\ "current_user" \notin DOMAIN bResult.value


(***************************************************************************)
(* Properties of the webhook reporter (WebSpec)                            *)
(***************************************************************************)
\* the delivery reached a registered handler whose generator finishes
\* without raising and without yielding a message
FinishesWithoutYield(w) ==
    /\ w.dispatched = 1
    /\ Callbacks(w.delivery.data) # <<>>
    /\ Generator(Callbacks(w.delivery.data)[1], w.delivery.data, w.delivery.repository)
          = Yields(<<>>)

\* C19 (as claimed): a delivery whose registered handler generator finishes
\* without yielding any message sends nothing to the room and is answered
\* with status 200.
C19_NoYieldAnswered200 ==
    \A q \in Requests :
        LET w == web[q]
        IN  (w.pc = "responded" /\ FinishesWithoutYield(w)) =>
              /\ w.sent = <<>>
              /\ w.status = 200


\* the delivery fails the validation of Event.from_http
Rejected(delivery) == ~delivery.valid
\* the delivery is valid and names a private or an ignored repository
Unreported(delivery) ==
    /\ delivery.valid
    /\ delivery.repository.present
    /\ \/ delivery.repository.visibility = "private"
       \/ delivery.repository.name \in ignored_repositories

\* C21: a delivery that fails validation is answered 400, one whose
\* repository is private or ignored is answered 200, and for neither is
\* router.dispatch awaited, a handler run or a message sent; every other
\* delivery, with or without a repository entry and with or without a
\* registered handler, is dispatched exactly once, and only such a delivery
\* ever has a message pending or sent.
C21_RejectedNeverDispatched ==
    \A q \in Requests :
        LET w == web[q]
            quiet == /\ w.dispatched = 0 /\ w.callback = ""
                     /\ w.sent = <<>> /\ w.pending = <<>> /\ ~w.logged
        IN  /\ w.pc \in {"waiting", "read"} => quiet /\ w.status = 0
            /\ (w.pc \in {"send", "responded"} /\ Rejected(w.delivery)) =>
                  quiet /\ w.pc = "responded" /\ w.status = 400
            /\ (w.pc \in {"send", "responded"} /\ Unreported(w.delivery)) =>
                  quiet /\ w.pc = "responded" /\ w.status = 200
            /\ (w.pc \in {"send", "responded"}
                  /\ ~Rejected(w.delivery) /\ ~Unreported(w.delivery)) =>
                  /\ w.dispatched = 1
                  /\ w.callback # "" <=> Callbacks(w.delivery.data) # <<>>
                  /\ w.callback # "" => w.callback = Callbacks(w.delivery.data)[1]
C21_Witness ==
    \E q \in Requests :
        LET w == web[q]
        IN  /\ w.pc = "responded"
            /\ w.delivery.valid
            /\ w.delivery.repository.name \in ignored_repositories
            /\ w.delivery.repository.visibility = "public"
            /\ w.delivery.data.event = "push" /\ w.delivery.data.ref_kind = "heads"
            /\ w.delivery.data.commits = 2
            /\ w.status = 200 /\ w.dispatched = 0 /\ w.sent = <<>>

====
